---- MODULE Spec2Model ----
(***************************************************************************)
(* Meta MCP Server: the request-orchestration core.                        *)
(*   registry/index.js      ToolRegistry (tools, registerTool, getTools)   *)
(*   analyzer/index.js      analyzeRequest and its extractors / matcher    *)
(*   orchestrator/index.js  createExecutionPlan                            *)
(*   executor/index.js      executeRequest                                 *)
(*   routes/api.js          POST /request                                  *)
(*   routes/tools.js        POST /register                                 *)
(* JavaScript objects are functions from property names to values; a       *)
(* property that is undefined is a name outside the function's DOMAIN.     *)
(* Strings are TLA+ strings, handled with Len, SubSeq and \o.              *)
(***************************************************************************)
EXTENDS Integers, Sequences, FiniteSets, TLC

(***************************************************************************)
(* Bounds of the model.                                                    *)
(***************************************************************************)
MaxTools == 2
MaxRequests == 1

(***************************************************************************)
(* String helpers (String.prototype.includes, toLowerCase, \w, \b).        *)
(***************************************************************************)
UpperChars == "ABCDEFGHIJKLMNOPQRSTUVWXYZ"
LowerChars == "abcdefghijklmnopqrstuvwxyz"
DigitChars == "0123456789"

CharAt(s, i) == SubSeq(s, i, i)

CharsOf(chars) == {CharAt(chars, i) : i \in 1..Len(chars)}

UpperSet == CharsOf(UpperChars)
LowerSet == CharsOf(LowerChars)
DigitSet == CharsOf(DigitChars)

\* the lower-case letter of each upper-case letter
LowerOf ==
  [ c \in UpperSet |->
      CharAt(LowerChars, CHOOSE i \in 1..Len(UpperChars) : CharAt(UpperChars, i) = c) ]

LowerChar(c) == IF c \in UpperSet THEN LowerOf[c] ELSE c

RECURSIVE LowerFrom(_, _)
LowerFrom(s, i) ==
  IF i > Len(s) THEN "" ELSE LowerChar(CharAt(s, i)) \o LowerFrom(s, i + 1)

\* variant: the query is matched as typed
ToLowerCaseNone(s) == s

ToLowerCase(s) == LowerFrom(s, 1)

Includes(s, kw) ==
  \E i \in 1..(Len(s) - Len(kw) + 1) : SubSeq(s, i, i + Len(kw) - 1) = kw

IncludesAny(s, kws) == \E k \in 1..Len(kws) : Includes(s, kws[k])

\* s has kw starting at index i
StartsAt(s, i, kw) ==
  /\ i >= 1
  /\ i + Len(kw) - 1 <= Len(s)
  /\ SubSeq(s, i, i + Len(kw) - 1) = kw

\* \w
IsWordChar(c) == c \in UpperSet \/ c \in LowerSet \/ c \in DigitSet \/ c = "_"

\* is the character at index i of s a \w character (FALSE outside the string)
WordAt(s, i) == i >= 1 /\ i <= Len(s) /\ IsWordChar(CharAt(s, i))

\* \b between index i-1 and index i
BoundaryAt(s, i) == WordAt(s, i - 1) # WordAt(s, i)

\* Array.prototype.includes on a sequence
SeqIncludes(seq, x) == \E i \in 1..Len(seq) : seq[i] = x

RECURSIVE FilterIdx(_, _, _)
\* Array.prototype.filter, by index: keep seq[i] when keep[i]
FilterIdx(seq, keep, i) ==
  IF i > Len(seq) THEN <<>>
  ELSE (IF keep[i] THEN <<seq[i]>> ELSE <<>>) \o FilterIdx(seq, keep, i + 1)

(***************************************************************************)
(* analyzer/index.js                                                       *)
(***************************************************************************)
UNKNOWN == "UNKNOWN"

\* the keyword table of analyzeRequest, in the order the intents are pushed
IntentKeywords ==
  << [intent |-> "FILE_OPERATION",
      kws |-> <<"file", "read", "write", "save", "load", "csv", "json", "txt">>],
     [intent |-> "DATA_PROCESSING",
      kws |-> <<"process", "transform", "extract", "convert", "analyze", "calculate">>],
     [intent |-> "CODE_GENERATION",
      kws |-> <<"code", "program", "function", "script", "algorithm", "develop">>],
     [intent |-> "VISUALIZATION",
      kws |-> <<"visualize", "chart", "plot", "graph", "dashboard", "display">>],
     [intent |-> "KNOWLEDGE_RETRIEVAL",
      kws |-> <<"search", "find", "lookup", "retrieve", "get information">>],
     [intent |-> "TERMINAL_EXECUTION",
      kws |-> <<"run", "execute", "terminal", "command", "shell", "bash">>],
     [intent |-> "WEB_SEARCH",
      kws |-> <<"web", "internet", "online", "website", "url", "http">>] >>

RECURSIVE PushMatching(_, _, _)
\* walk a keyword table in order, pushing the label of every row that triggers
PushMatching(table, lowerQuery, i) ==
  IF i > Len(table) THEN <<>>
  ELSE (IF IncludesAny(lowerQuery, table[i].kws) THEN <<table[i].intent>> ELSE <<>>)
       \o PushMatching(table, lowerQuery, i + 1)

\* variant: no fallback to UNKNOWN
DetectIntentsNoFallback(text) == PushMatching(IntentKeywords, ToLowerCase(text), 1)

DetectIntents(text) ==
  LET found == PushMatching(IntentKeywords, ToLowerCase(text), 1)
  IN  IF Len(found) = 0 THEN <<UNKNOWN>> ELSE found

FileExtensions == <<"csv", "json", "txt", "md", "py", "js", "html", "css", "xml", "pdf">>

\* [\w-]
IsFileNameChar(c) == IsWordChar(c) \/ c = "-"

RECURSIVE RunLength(_, _)
\* length of the maximal run of [\w-] characters starting at index i
RunLength(s, i) ==
  IF i <= Len(s) /\ IsFileNameChar(CharAt(s, i)) THEN 1 + RunLength(s, i + 1) ELSE 0

\* the alternatives of (csv|json|...) that match at index i with \b after them
ExtMatches(s, i) ==
  { k \in 1..Len(FileExtensions) :
      /\ StartsAt(s, i, FileExtensions[k])
      /\ BoundaryAt(s, i + Len(FileExtensions[k])) }

\* end index of the match of filePattern starting at index i, 0 when none.
\* The greedy run can only stop at its maximal length: the next character
\* has to be the dot, which is not in [\w-].
FileMatchEnd(s, i) ==
  LET n == RunLength(s, i)
      d == i + n
  IN  IF /\ BoundaryAt(s, i)
         /\ n >= 1
         /\ StartsAt(s, d, ".")
         /\ ExtMatches(s, d + 1) # {}
        THEN LET k == CHOOSE k \in ExtMatches(s, d + 1) :
                        \A j \in ExtMatches(s, d + 1) : k <= j
             IN  d + Len(FileExtensions[k])
        ELSE 0

RECURSIVE MatchAllFiles(_, _)
\* query.matchAll(filePattern) from index i on: leftmost match, then continue after it
MatchAllFiles(s, i) ==
  IF i > Len(s) THEN <<>>
  ELSE LET e == FileMatchEnd(s, i)
       IN  IF e > 0 THEN <<SubSeq(s, i, e)>> \o MatchAllFiles(s, e + 1)
           ELSE MatchAllFiles(s, i + 1)

extractFileReferences(text) == MatchAllFiles(text, 1)

DataTypeKeywords ==
  << [intent |-> "tabular", kws |-> <<"csv", "spreadsheet", "excel", "table">>],
     [intent |-> "json",    kws |-> <<"json", "object", "dictionary">>],
     [intent |-> "text",    kws |-> <<"text", "string", "document">>],
     [intent |-> "image",   kws |-> <<"image", "picture", "photo", "graphic">>] >>

extractDataTypes(text) == PushMatching(DataTypeKeywords, ToLowerCase(text), 1)

\* languagePatterns: \b(alt1|alt2|...)\b per language
LanguagePatterns ==
  << [intent |-> "python",     kws |-> <<"python", "py">>],
     [intent |-> "javascript", kws |-> <<"javascript", "js", "node">>],
     [intent |-> "typescript", kws |-> <<"typescript", "ts">>],
     [intent |-> "java",       kws |-> <<"java">>],
     [intent |-> "cpp",        kws |-> <<"c++", "cpp">>],
     [intent |-> "csharp",     kws |-> <<"c#", "csharp">>],
     [intent |-> "ruby",       kws |-> <<"ruby", "rb">>],
     [intent |-> "go",         kws |-> <<"go", "golang">>],
     [intent |-> "php",        kws |-> <<"php">>],
     [intent |-> "sql",        kws |-> <<"sql">>],
     [intent |-> "bash",       kws |-> <<"bash", "shell">>],
     [intent |-> "rust",       kws |-> <<"rust">>],
     [intent |-> "html",       kws |-> <<"html">>],
     [intent |-> "css",        kws |-> <<"css">>] >>

\* pattern.test(s) for /\b(a|b|...)\b/
WordPatternTest(s, alts) ==
  \E k \in 1..Len(alts) : \E i \in 1..Len(s) :
     /\ StartsAt(s, i, alts[k])
     /\ BoundaryAt(s, i)
     /\ BoundaryAt(s, i + Len(alts[k]))

RECURSIVE PushLanguages(_, _)
PushLanguages(lowerQuery, i) ==
  IF i > Len(LanguagePatterns) THEN <<>>
  ELSE (IF WordPatternTest(lowerQuery, LanguagePatterns[i].kws)
          THEN <<LanguagePatterns[i].intent>> ELSE <<>>)
       \o PushLanguages(lowerQuery, i + 1)

extractCodeLanguages(text) == PushLanguages(ToLowerCase(text), 1)

VisualizationKeywords ==
  << [intent |-> "bar_chart",    kws |-> <<"bar", "column">>],
     [intent |-> "line_chart",   kws |-> <<"line", "trend">>],
     [intent |-> "pie_chart",    kws |-> <<"pie", "donut">>],
     [intent |-> "scatter_plot", kws |-> <<"scatter", "point">>],
     [intent |-> "heatmap",      kws |-> <<"heatmap", "heat map">>],
     [intent |-> "histogram",    kws |-> <<"histogram">>],
     [intent |-> "box_plot",     kws |-> <<"box plot", "boxplot">>] >>

extractVisualizationTypes(text) ==
  PushMatching(VisualizationKeywords, ToLowerCase(text), 1)

ExtractEntities(text) ==
  [ files              |-> extractFileReferences(text),
    dataTypes          |-> extractDataTypes(text),
    codeLanguages      |-> extractCodeLanguages(text),
    visualizationTypes |-> extractVisualizationTypes(text) ]

\* the queries the model serves
SalesQuery == "Extract data from sales.csv and create a bar chart"

\* a query with no intent keyword and no entity
PlainQuery == "hello"

\* a query with an intent keyword and an entity of each of the four kinds
FullQuery == "convert object in python, pie a.md b.md"

Queries == {SalesQuery, "notes.md", "search the web", PlainQuery, FullQuery}

\* the intents and entities analyzeRequest computes from the text of a query
\* (they do not depend on the registry), computed once per query
Classified ==
  [ q \in Queries |-> [intents |-> DetectIntents(q), entities |-> ExtractEntities(q)] ]

calculateConfidenceTimes100(intents, entities) ==
  LET base == IF ~SeqIncludes(intents, UNKNOWN) THEN 40 ELSE 0
      c == base
           + (IF Len(entities.files) > 0 THEN 15 ELSE 0)
           + (IF Len(entities.dataTypes) > 0 THEN 15 ELSE 0)
           + (IF Len(entities.codeLanguages) > 0 THEN 15 ELSE 0)
           + (IF Len(entities.visualizationTypes) > 0 THEN 15 ELSE 0)
  IN  IF c < 100 THEN c ELSE 100

(***************************************************************************)
(* JavaScript objects.                                                     *)
(***************************************************************************)
Has(o, f) == f \in DOMAIN o

\* Object.assign(target, source) / { ...target, ...source }
ObjectAssign(target, source) ==
  [f \in DOMAIN target \cup DOMAIN source |->
      IF f \in DOMAIN source THEN source[f] ELSE target[f]]

\* the object literal {}
EmptyObject == [f \in {} |-> ""]

\* file.split('.').pop()
RECURSIVE AfterLastDot(_, _)
AfterLastDot(s, i) ==
  IF i < 1 THEN s
  ELSE IF CharAt(s, i) = "." THEN SubSeq(s, i + 1, Len(s))
  ELSE AfterLastDot(s, i - 1)

SplitPop(file) == AfterLastDot(file, Len(file))

\* number of elements of seq that satisfy keep
CountKept(seq, keep) == Cardinality({i \in 1..Len(seq) : keep[i]})

\* t.id === tool.id, undefined on both sides included
SameId(a, b) ==
  IF Has(a, "id") THEN Has(b, "id") /\ a.id = b.id ELSE ~Has(b, "id")

\* String(x.id) inside a template literal
IdText(o) == IF Has(o, "id") THEN o.id ELSE "undefined"

(***************************************************************************)
(* calculateToolMatchScore and matchToolsToIntents (analyzer/index.js)     *)
(***************************************************************************)
CapHas(tool, f) == Has(tool, "capabilities") /\ Has(tool.capabilities, f)

\* variant: every declared file type counts, matched by a query file or not
calculateToolMatchScoreDeclared(tool, entities) ==
  IF CapHas(tool, "fileTypes") THEN 10 * Len(tool.capabilities.fileTypes) ELSE 0

\* the score of a tool against the entities of a query
calculateToolMatchScore(tool, entities) ==
  (IF CapHas(tool, "fileTypes")
     THEN 10 * CountKept(entities.files,
                 [i \in 1..Len(entities.files) |->
                    SeqIncludes(tool.capabilities.fileTypes,
                                ToLowerCase(SplitPop(entities.files[i])))])
     ELSE 0)
  + (IF CapHas(tool, "dataTypes")
       THEN 5 * CountKept(entities.dataTypes,
                   [i \in 1..Len(entities.dataTypes) |->
                      SeqIncludes(tool.capabilities.dataTypes, entities.dataTypes[i])])
       ELSE 0)
  + (IF CapHas(tool, "languages")
       THEN 8 * CountKept(entities.codeLanguages,
                   [i \in 1..Len(entities.codeLanguages) |->
                      SeqIncludes(tool.capabilities.languages, entities.codeLanguages[i])])
       ELSE 0)
  + (IF CapHas(tool, "visualizationTypes")
       THEN 7 * CountKept(entities.visualizationTypes,
                   [i \in 1..Len(entities.visualizationTypes) |->
                      SeqIncludes(tool.capabilities.visualizationTypes,
                                  entities.visualizationTypes[i])])
       ELSE 0)

\* variant: only the first detected intent is looked for
IntentMatchFirstOnly(tool, intents) ==
  /\ Len(intents) > 0
  /\ CapHas(tool, "intents")
  /\ SeqIncludes(tool.capabilities.intents, intents[1])

\* intents.some(intent => tool.capabilities && ...intents && ...includes(intent))
IntentMatch(tool, intents) ==
  \E i \in 1..Len(intents) :
     CapHas(tool, "intents") /\ SeqIncludes(tool.capabilities.intents, intents[i])

RECURSIVE InsertByScore(_, _)
\* insert m after every element whose score is >= m.score (stable, descending)
InsertByScore(sorted, m) ==
  IF Len(sorted) = 0 THEN <<m>>
  ELSE IF sorted[1].score >= m.score
         THEN <<sorted[1]>> \o InsertByScore(Tail(sorted), m)
         ELSE <<m>> \o sorted

RECURSIVE SortByScoreFrom(_, _, _)
SortByScoreFrom(ms, i, acc) ==
  IF i > Len(ms) THEN acc ELSE SortByScoreFrom(ms, i + 1, InsertByScore(acc, ms[i]))

\* variant: the array is left in the order it has
SortByScoreNone(ms) == ms

\* Array.prototype.sort((a, b) => b.score - a.score): stable, descending
SortByScore(ms) == SortByScoreFrom(ms, 1, <<>>)

\* variant: a tool with score 0 is kept
matchToolsKeepZero(allTools, intents, entities) ==
  LET keep == [i \in 1..Len(allTools) |-> IntentMatch(allTools[i], intents)]
      cand == [i \in 1..Len(allTools) |->
                 [ref |-> i, score |-> calculateToolMatchScore(allTools[i], entities)]]
  IN  SortByScore(FilterIdx(cand, keep, 1))

\* A matched tool holds a reference to the registry's object: ref is the
\* index of that object in registry.tools (objects never move or leave).
matchToolsToIntents(allTools, intents, entities) ==
  LET keep == [i \in 1..Len(allTools) |->
                 /\ IntentMatch(allTools[i], intents)
                 /\ calculateToolMatchScore(allTools[i], entities) > 0]
      cand == [i \in 1..Len(allTools) |->
                 [ref |-> i, score |-> calculateToolMatchScore(allTools[i], entities)]]
  IN  SortByScore(FilterIdx(cand, keep, 1))

\* analyzeRequest(query), reading the registry as it is at the call
analyzeRequest(query, allTools) ==
  LET intents  == Classified[query].intents
      entities == Classified[query].entities
  IN  [ query        |-> query,
        intents      |-> intents,
        entities     |-> entities,
        matchedTools |-> matchToolsToIntents(allTools, intents, entities),
        confidence   |-> calculateConfidenceTimes100(intents, entities) ]

(***************************************************************************)
(* registry/index.js                                                       *)
(***************************************************************************)
\* index of the first object with the tool's id, 0 when there is none
FindIndex(ts, tool) ==
  IF \E i \in 1..Len(ts) : SameId(ts[i], tool)
    THEN CHOOSE i \in 1..Len(ts) :
           SameId(ts[i], tool) /\ \A j \in 1..(i - 1) : ~SameId(ts[j], tool)
    ELSE 0

\* variant: no lookup of an existing entry
registerToolAppend(ts, tool) == Append(ts, tool)

\* variant: an existing entry is replaced by the new definition
registerToolReplace(ts, tool) ==
  LET e == FindIndex(ts, tool)
  IN  IF e > 0 THEN [ts EXCEPT ![e] = tool]
      ELSE Append(ts, tool)

\* variant: the call ends after the first field of the merge
registerToolPartial(ts, tool) ==
  LET e == FindIndex(ts, tool)
  IN  IF e > 0
        THEN [ts EXCEPT ![e] = ObjectAssign(ts[e], [f \in {"name"} \cap DOMAIN tool |-> tool[f]])]
        ELSE Append(ts, tool)

registerTool(ts, tool) ==
  LET e == FindIndex(ts, tool)
  IN  IF e > 0 THEN [ts EXCEPT ![e] = ObjectAssign(ts[e], tool)]
      ELSE Append(ts, tool)

\* name.toLowerCase().replace(/[^a-z0-9]+/g, '-')
IsSlugChar(c) == c \in LowerSet \/ c \in DigitSet

RECURSIVE SlugFrom(_, _)
SlugFrom(s, i) ==
  IF i > Len(s) THEN ""
  ELSE IF IsSlugChar(CharAt(s, i)) THEN CharAt(s, i) \o SlugFrom(s, i + 1)
  ELSE IF i > 1 /\ ~IsSlugChar(CharAt(s, i - 1)) THEN SlugFrom(s, i + 1)
  ELSE "-" \o SlugFrom(s, i + 1)

Slugify(name) == SlugFrom(ToLowerCase(name), 1)

(***************************************************************************)
(* orchestrator/index.js                                                   *)
(***************************************************************************)
\* String.prototype.replace(from, to) with a string pattern: first occurrence only
ReplaceFirst(s, from, to) ==
  IF Includes(s, from)
    THEN LET i == CHOOSE i \in 1..Len(s) :
                    StartsAt(s, i, from) /\ \A j \in 1..(i - 1) : ~StartsAt(s, j, from)
         IN  SubSeq(s, 1, i - 1) \o to \o SubSeq(s, i + Len(from), Len(s))
    ELSE s

RECURSIVE Join(_, _)
\* Array.prototype.join(sep)
Join(seq, sep) ==
  IF Len(seq) = 0 THEN ""
  ELSE IF Len(seq) = 1 THEN seq[1]
  ELSE seq[1] \o sep \o Join(Tail(seq), sep)

RECURSIVE Split(_, _, _)
\* String.prototype.split(sep) for a one-character separator, from index i on
Split(s, sep, i) ==
  IF \E j \in i..Len(s) : CharAt(s, j) = sep
    THEN LET j == CHOOSE j \in i..Len(s) :
                    CharAt(s, j) = sep /\ \A k \in i..(j - 1) : CharAt(s, k) # sep
         IN  <<SubSeq(s, i, j - 1)>> \o Split(s, sep, j + 1)
    ELSE <<SubSeq(s, i, Len(s))>>

\* [...new Set(seq)]: first occurrences, in order
Unique(seq) ==
  FilterIdx(seq, [i \in 1..Len(seq) |-> \A j \in 1..(i - 1) : seq[j] # seq[i]], 1)

MapSplitPop(files) == [i \in 1..Len(files) |-> SplitPop(files[i])]

\* word.charAt(0) + word.slice(1).toLowerCase()
Capitalize(word) == SubSeq(word, 1, 1) \o ToLowerCase(SubSeq(word, 2, Len(word)))

generateToolTemplate(intent, entities) ==
  LET words == Split(intent, "_", 1)
      base ==
        [ id           |-> ToLowerCase(intent) \o "_tool",
          name         |-> Join([i \in 1..Len(words) |-> Capitalize(words[i])], " ") \o " Tool",
          version      |-> "0.1.0",
          description  |-> "A tool for " \o ReplaceFirst(ToLowerCase(intent), "_", " "),
          capabilities |-> [intents |-> <<intent>>],
          defaultParams |-> EmptyObject,
          outputs      |-> EmptyObject ]
      custom ==
        CASE intent = "FILE_OPERATION" ->
               [ capabilities  |-> [intents |-> <<intent>>,
                                    fileTypes |-> MapSplitPop(entities.files)],
                 defaultParams |-> [filePath |-> ""],
                 outputs       |-> [success |-> TRUE, filePath |-> ""] ]
          [] intent = "DATA_PROCESSING" ->
               [ capabilities  |-> [intents |-> <<intent>>, dataTypes |-> entities.dataTypes],
                 defaultParams |-> [inputData |-> EmptyObject],
                 outputs       |-> [success |-> TRUE, result |-> EmptyObject] ]
          [] intent = "CODE_GENERATION" ->
               [ capabilities  |-> [intents |-> <<intent>>,
                                    languages |-> entities.codeLanguages],
                 defaultParams |-> [prompt |-> ""],
                 outputs       |-> [success |-> TRUE, code |-> ""] ]
          [] intent = "VISUALIZATION" ->
               [ capabilities  |-> [intents |-> <<intent>>,
                                    visualizationTypes |-> entities.visualizationTypes],
                 defaultParams |-> [data |-> EmptyObject],
                 outputs       |-> [success |-> TRUE, visualizationPath |-> ""] ]
          [] intent = "KNOWLEDGE_RETRIEVAL" ->
               [ defaultParams |-> [query |-> ""],
                 outputs       |-> [success |-> TRUE, knowledge |-> EmptyObject] ]
          [] intent = "TERMINAL_EXECUTION" ->
               [ defaultParams |-> [command |-> ""],
                 outputs       |-> [success |-> TRUE, output |-> ""] ]
          [] intent = "WEB_SEARCH" ->
               [ defaultParams |-> [query |-> ""],
                 outputs       |-> [success |-> TRUE, results |-> <<>>] ]
          [] OTHER -> EmptyObject
  IN  ObjectAssign(base, custom)

SuggestionFor(intent, entities) ==
  LET d0 == "A tool that can handle " \o ReplaceFirst(ToLowerCase(intent), "_", " ")
      d1 == IF intent = "FILE_OPERATION" /\ Len(entities.files) > 0
              THEN d0 \o " for " \o Join(Unique(MapSplitPop(entities.files)), ", ") \o " files"
              ELSE d0
      d2 == IF intent = "DATA_PROCESSING" /\ Len(entities.dataTypes) > 0
              THEN d1 \o " with " \o Join(entities.dataTypes, ", ") \o " data"
              ELSE d1
      d3 == IF intent = "CODE_GENERATION" /\ Len(entities.codeLanguages) > 0
              THEN d2 \o " in " \o Join(entities.codeLanguages, ", ")
              ELSE d2
      d4 == IF intent = "VISUALIZATION" /\ Len(entities.visualizationTypes) > 0
              THEN d3 \o " for " \o Join(entities.visualizationTypes, ", ") \o " visualizations"
              ELSE d3
  IN  [ intent      |-> intent,
        description |-> d4,
        template    |-> generateToolTemplate(intent, entities) ]

RECURSIVE SuggestFrom(_, _, _)
SuggestFrom(intents, entities, i) ==
  IF i > Len(intents) THEN <<>>
  ELSE (IF intents[i] = UNKNOWN THEN <<>> ELSE <<SuggestionFor(intents[i], entities)>>)
       \o SuggestFrom(intents, entities, i + 1)

\* variant: only the first intent gets a suggestion
suggestOnlyFirst(intents, entities) == SuggestFrom(SubSeq(intents, 1, 1), entities, 1)

suggestToolsToCreate(intents, entities) == SuggestFrom(intents, entities, 1)

\* matched tools are dereferenced through the registry's objects (allTools)
findBestToolForIntent(intent, matchedTools, allTools) ==
  LET keep == [i \in 1..Len(matchedTools) |->
                 /\ CapHas(allTools[matchedTools[i].ref], "intents")
                 /\ SeqIncludes(allTools[matchedTools[i].ref].capabilities.intents, intent)]
  IN  SortByScore(FilterIdx(matchedTools, keep, 1))

\* the switch of determineInputParams: params as the entities give them
EntityParams(intent, entities) ==
  LET one(cond, obj) == IF cond THEN obj ELSE EmptyObject
  IN  CASE intent = "FILE_OPERATION" ->
             one(Len(entities.files) > 0, [filePath |-> entities.files[1]])
        [] intent = "DATA_PROCESSING" ->
             ObjectAssign(
               one(Len(entities.files) > 0, [inputFile |-> entities.files[1]]),
               one(Len(entities.dataTypes) > 0, [dataType |-> entities.dataTypes[1]]))
        [] intent = "CODE_GENERATION" ->
             one(Len(entities.codeLanguages) > 0, [language |-> entities.codeLanguages[1]])
        [] intent = "VISUALIZATION" ->
             ObjectAssign(
               one(Len(entities.files) > 0, [dataSource |-> entities.files[1]]),
               one(Len(entities.visualizationTypes) > 0,
                   [visualizationType |-> entities.visualizationTypes[1]]))
        [] OTHER -> EmptyObject

\* variant: { ...params, ...tool.defaultParams }
determineInputParamsToolLast(intent, entities, tool) ==
  IF Has(tool, "defaultParams")
    THEN ObjectAssign(EntityParams(intent, entities), tool.defaultParams)
    ELSE EntityParams(intent, entities)

\* { ...tool.defaultParams, ...params }
determineInputParams(intent, entities, tool) ==
  IF Has(tool, "defaultParams")
    THEN ObjectAssign(tool.defaultParams, EntityParams(intent, entities))
    ELSE EntityParams(intent, entities)

determineOutputParams(intent, tool) ==
  IF Has(tool, "outputs") THEN tool.outputs
  ELSE CASE intent = "FILE_OPERATION"      -> [success |-> TRUE, filePath |-> ""]
         [] intent = "DATA_PROCESSING"     -> [success |-> TRUE, result |-> EmptyObject]
         [] intent = "CODE_GENERATION"     -> [success |-> TRUE, code |-> ""]
         [] intent = "VISUALIZATION"       -> [success |-> TRUE, visualizationPath |-> ""]
         [] intent = "KNOWLEDGE_RETRIEVAL" -> [success |-> TRUE, knowledge |-> EmptyObject]
         [] intent = "TERMINAL_EXECUTION"  -> [success |-> TRUE, output |-> ""]
         [] intent = "WEB_SEARCH"          -> [success |-> TRUE, results |-> <<>>]
         [] OTHER                          -> [success |-> TRUE]

\* `step_${n}`
StepId(n) == "step_" \o ToString(n)

\* one entry of steps.push({...}) for the selected tool
MakeStep(n, intent, entities, tool) ==
  ObjectAssign(
    ObjectAssign(
      [ stepId       |-> StepId(n),
        intent       |-> intent,
        inputParams  |-> determineInputParams(intent, entities, tool),
        outputParams |-> determineOutputParams(intent, tool) ],
      IF Has(tool, "id") THEN [toolId |-> tool.id] ELSE EmptyObject),
    IF Has(tool, "name") THEN [toolName |-> tool.name] ELSE EmptyObject)

RECURSIVE BuildStepsByPosition(_, _, _, _, _, _)
\* variant: a step is numbered by the position of its intent in intents
BuildStepsByPosition(intents, entities, matchedTools, allTools, i, steps) ==
  IF i > Len(intents) THEN steps
  ELSE IF intents[i] = UNKNOWN
         THEN BuildStepsByPosition(intents, entities, matchedTools, allTools, i + 1, steps)
  ELSE LET best == findBestToolForIntent(intents[i], matchedTools, allTools)
       IN  IF Len(best) > 0
             THEN BuildStepsByPosition(intents, entities, matchedTools, allTools, i + 1,
                    Append(steps, MakeStep(i, intents[i], entities,
                                           allTools[best[1].ref])))
             ELSE BuildStepsByPosition(intents, entities, matchedTools, allTools, i + 1, steps)

RECURSIVE BuildSteps(_, _, _, _, _, _)
\* the loop over intents of createExecutionPlan, from intent i on
BuildSteps(intents, entities, matchedTools, allTools, i, steps) ==
  IF i > Len(intents) THEN steps
  ELSE IF intents[i] = UNKNOWN
         THEN BuildSteps(intents, entities, matchedTools, allTools, i + 1, steps)
  ELSE LET best == findBestToolForIntent(intents[i], matchedTools, allTools)
       IN  IF Len(best) > 0
             THEN BuildSteps(intents, entities, matchedTools, allTools, i + 1,
                    Append(steps, MakeStep(Len(steps) + 1, intents[i], entities,
                                           allTools[best[1].ref])))
             ELSE BuildSteps(intents, entities, matchedTools, allTools, i + 1, steps)

\* obj[key] = value on an object kept as its entries in insertion order
ObjPut(entries, key, value) ==
  IF \E i \in 1..Len(entries) : entries[i].key = key
    THEN [i \in 1..Len(entries) |->
            IF entries[i].key = key THEN [key |-> key, value |-> value] ELSE entries[i]]
    ELSE Append(entries, [key |-> key, value |-> value])

RECURSIVE DataFlowFrom(_, _, _)
DataFlowFrom(steps, i, dataFlow) ==
  IF i > Len(steps) - 1 THEN dataFlow
  ELSE DataFlowFrom(steps, i + 1,
         ObjPut(dataFlow,
                steps[i].stepId \o ":" \o steps[i + 1].stepId,
                [ from     |-> steps[i].stepId,
                  to       |-> steps[i + 1].stepId,
                  mappings |-> << [fromParam |-> "result", toParam |-> "input"] >> ]))

\* variant: the loop over consecutive pairs starts one pair late
createDataFlowMapLate(steps) == DataFlowFrom(steps, 2, <<>>)

\* the dataFlow object, as its entries <<[key, value]>> in insertion order
createDataFlowMap(steps) == DataFlowFrom(steps, 1, <<>>)

\* variant: steps.length >= 0
CanExecuteAlways(steps) == Len(steps) >= 0

\* canExecute: steps.length > 0
CanExecute(steps) == Len(steps) > 0

\* `plan_${Date.now()}_${Math.floor(Math.random() * 1000)}`
generatePlanId(now, rnd) == "plan_" \o ToString(now) \o "_" \o ToString(rnd)

createExecutionPlan(analysis, allTools, now, rnd) ==
  IF Len(analysis.matchedTools) = 0
    THEN [ canExecute     |-> FALSE,
           reason         |-> "No suitable tools found",
           suggestedTools |-> suggestToolsToCreate(analysis.intents, analysis.entities) ]
    ELSE
      LET intents  == analysis.intents
          steps    == BuildSteps(intents, analysis.entities, analysis.matchedTools,
                                 allTools, 1, <<>>)
          addressed == {steps[i].intent : i \in 1..Len(steps)}
          unaddressedIntents ==
            FilterIdx(intents,
                      [i \in 1..Len(intents) |->
                         intents[i] # UNKNOWN /\ intents[i] \notin addressed], 1)
          plan == [ planId     |-> generatePlanId(now, rnd),
                    canExecute |-> CanExecute(steps),
                    steps      |-> steps,
                    dataFlow   |-> createDataFlowMap(steps) ]
      IN  IF Len(unaddressedIntents) > 0
            THEN ObjectAssign(plan,
                   [ unaddressedIntents |-> unaddressedIntents,
                     suggestedTools |-> suggestToolsToCreate(unaddressedIntents,
                                                             analysis.entities) ])
            ELSE plan

(***************************************************************************)
(* Values that tools return or throw at run time.                          *)
(***************************************************************************)
JUndefined == [t |-> "undefined"]
JNull == [t |-> "null"]
JString(str) == [t |-> "string", v |-> str]
JObject(obj) == [t |-> "object", o |-> obj]
\* new Error(message)
JError(message) == [t |-> "error", message |-> JString(message)]

\* value.prop throws a TypeError exactly for undefined and null
IsNullish(v) == v.t \in {"undefined", "null"}

\* value[prop]
GetProp(v, prop) ==
  IF v.t = "object" /\ Has(v.o, prop) THEN v.o[prop]
  ELSE IF v.t = "error" /\ prop = "message" THEN v.message
  ELSE JUndefined

\* `${value}` for a string or undefined
Text(v) == IF v.t = "string" THEN v.v ELSE "undefined"

(***************************************************************************)
(* executor/index.js                                                       *)
(***************************************************************************)
\* tools.find(tool => tool.id === toolId): index of the object, 0 when none
getToolInstance(allTools, step) ==
  LET hit(i) == IF Has(step, "toolId")
                  THEN Has(allTools[i], "id") /\ allTools[i].id = step.toolId
                  ELSE ~Has(allTools[i], "id")
  IN  IF \E i \in 1..Len(allTools) : hit(i)
        THEN CHOOSE i \in 1..Len(allTools) : hit(i) /\ \A j \in 1..(i - 1) : ~hit(j)
        ELSE 0

StepToolText(step) == IF Has(step, "toolId") THEN step.toolId ELSE "undefined"

RECURSIVE ApplyMappings(_, _, _, _)
ApplyMappings(mappings, m, sourceResult, inputParams) ==
  IF m > Len(mappings) THEN inputParams
  ELSE LET sourceValue == GetProp(sourceResult, mappings[m].fromParam)
       IN  ApplyMappings(mappings, m + 1, sourceResult,
             IF sourceValue # JUndefined
               THEN ObjectAssign(inputParams,
                      [f \in {mappings[m].toParam} |-> sourceValue])
               ELSE inputParams)

RECURSIVE ApplyConnections(_, _, _, _, _)
\* the loop over connections; yields [ok, params] or [ok, error] when
\* sourceStepResult.result is undefined or null
ApplyConnections(dataFlow, c, step, results, inputParams) ==
  IF c > Len(dataFlow) THEN [ok |-> TRUE, params |-> inputParams]
  ELSE LET connection == dataFlow[c].value
       IN  IF connection.to # step.stepId
             THEN ApplyConnections(dataFlow, c + 1, step, results, inputParams)
           ELSE IF ~(connection.from \in DOMAIN results) \/ ~results[connection.from].success
             THEN ApplyConnections(dataFlow, c + 1, step, results, inputParams)
           ELSE IF IsNullish(results[connection.from].result)
             THEN [ok |-> FALSE,
                   error |-> JError("Cannot read properties of "
                                    \o results[connection.from].result.t
                                    \o " (reading '"
                                    \o connection.mappings[1].fromParam \o "')")]
           ELSE ApplyConnections(dataFlow, c + 1, step, results,
                  ApplyMappings(connection.mappings, 1,
                                results[connection.from].result, inputParams))

transformInputParams(step, results, dataFlow) ==
  ApplyConnections(dataFlow, 1, step, results,
                   [k \in DOMAIN step.inputParams |-> JString(step.inputParams[k])])

\* variant: executionConfig is looked at before execute
StrategyConfigFirst(tool) ==
  IF Has(tool, "executionConfig") THEN "declarative"
  ELSE IF Has(tool, "execute") /\ tool.execute = "function" THEN "execute"
  ELSE IF Has(tool, "type") /\ tool.type = "mcp-server" THEN "mcp-server"
  ELSE "none"

\* which branch of executeTool the tool's shape selects
Strategy(tool) ==
  IF Has(tool, "execute") /\ tool.execute = "function" THEN "execute"
  ELSE IF Has(tool, "executionConfig") THEN "declarative"
  ELSE IF Has(tool, "type") /\ tool.type = "mcp-server" THEN "mcp-server"
  ELSE "none"

\* executeDeclarativeTool: [ok, value] for http and command-line, [ok, error] otherwise
executeDeclarativeTool(tool, params) ==
  IF tool.executionConfig.type = "http"
    THEN [ok |-> TRUE,
          value |-> JObject([status  |-> JString("success"),
                             message |-> JString("HTTP tool executed successfully"),
                             params  |-> JObject(params)])]
  ELSE IF tool.executionConfig.type = "command-line"
    THEN [ok |-> TRUE,
          value |-> JObject([status  |-> JString("success"),
                             message |-> JString("Command-line tool executed successfully"),
                             params  |-> JObject(params)])]
  ELSE [ok |-> FALSE,
        error |-> JError("Unknown execution type: " \o tool.executionConfig.type)]

\* the value executeMcpServer resolves to after its timer
McpResult(tool) ==
  JObject([status  |-> JString("success"),
           message |-> JString("MCP server executed successfully"),
           result  |-> JObject([data |-> JObject(EmptyObject),
                                metadata |-> JObject(
                                  [processingTime |-> JString("50ms"),
                                   server |-> IF Has(tool, "id") THEN JString(tool.id)
                                              ELSE JUndefined])])])

\* what a tool's own execute(params) may do: the values it may return or throw
ReturnValues ==
  { JUndefined, JNull,
    JObject([result |-> JString("rows")]),
    JObject([status |-> JString("done")]) }

ThrownValues == { JError("boom"), JNull, JString("oops") }

(***************************************************************************)
(* The tool definitions the model registers, and the queries it serves.    *)
(***************************************************************************)
CsvExtractor ==
  [ id |-> "csv-extractor", name |-> "CSV Extractor",
    capabilities |-> [intents |-> <<"DATA_PROCESSING">>, fileTypes |-> <<"csv">>],
    executionConfig |-> [type |-> "http", url |-> "http://localhost:3001/api/process"] ]

ChartMaker ==
  [ id |-> "chart-maker", name |-> "Chart Maker",
    type |-> "mcp-server", apiEndpoint |-> "http://localhost:3002/api/visualize",
    capabilities |-> [intents |-> <<"VISUALIZATION">>,
                      visualizationTypes |-> <<"bar_chart">>] ]

\* a .tool.js module with its own execute(params), which also carries an
\* executionConfig, the type mcp-server and an apiEndpoint; it reads files
\* and declares WEB_SEARCH as well
JsReader ==
  [ id |-> "js-reader", name |-> "JS Reader",
    capabilities |-> [intents |-> <<"FILE_OPERATION", "WEB_SEARCH">>,
                      fileTypes |-> <<"csv">>],
    execute |-> "function",
    executionConfig |-> [type |-> "http", url |-> "http://localhost:3001/api/read"],
    type |-> "mcp-server", apiEndpoint |-> "http://localhost:3001/api/read" ]

\* a second definition of csv-extractor, without executionConfig
CsvExtractorV2 ==
  [ id |-> "csv-extractor", name |-> "CSV Extractor 2",
    capabilities |-> [intents |-> <<"DATA_PROCESSING", "VISUALIZATION">>,
                      fileTypes |-> <<"csv">>],
    defaultParams |-> [inputFile |-> "default.csv", format |-> "json"] ]

\* a definition with an apiEndpoint and nothing else to execute it by: no
\* execute, no executionConfig, no type
BareTool ==
  [ id |-> "bare", name |-> "Bare",
    apiEndpoint |-> "http://localhost:3003/api/draw",
    capabilities |-> [intents |-> <<"VISUALIZATION">>,
                      visualizationTypes |-> <<"bar_chart">>,
                      dataTypes |-> <<"tabular">>] ]

\* declares UNKNOWN, and an execution type executeDeclarativeTool does not know
Fallback ==
  [ id |-> "fallback", name |-> "Fallback",
    capabilities |-> [intents |-> <<"UNKNOWN", "DATA_PROCESSING">>,
                      fileTypes |-> <<"md", "csv">>],
    executionConfig |-> [type |-> "ftp"] ]

\* the request body of the README's register example: no id
MyTool ==
  [ name |-> "My Tool", type |-> "mcp-server",
    apiEndpoint |-> "http://localhost:3001/api/process",
    capabilities |-> [intents |-> <<"VISUALIZATION">>,
                      visualizationTypes |-> <<"bar_chart">>,
                      fileTypes |-> <<"csv">>] ]

\* a definition with an empty capabilities object
Blank == [ id |-> "blank", name |-> "Blank", capabilities |-> EmptyObject ]

\* definitions found by scanForTools in the tools directory
ScanPayloads == {CsvExtractor, ChartMaker, JsReader, BareTool, Fallback, Blank}

\* bodies posted to /register
RoutePayloads == {MyTool, CsvExtractorV2}

\* a body for /create-server: a name and capabilities, no id, no type, no
\* apiEndpoint
NewServer ==
  [ name |-> "New Server",
    capabilities |-> [intents |-> <<"VISUALIZATION">>,
                      visualizationTypes |-> <<"bar_chart">>] ]

\* bodies posted to /create-server
ServerPayloads == {NewServer}

\* Date.now() and Math.floor(Math.random() * 1000) as seen by generatePlanId
Clock == {1762137600}
Randoms == {417}

(***************************************************************************)
(* State.                                                                  *)
(***************************************************************************)
VARIABLES
  tools,          \* registry.tools: the registered objects, in order
  idPending,      \* indexes of objects that a /register handler still holds
                  \* and whose id generateToolDefinition has yet to look at
  lastRegistered, \* the latest registerTool call, while no other write to the
                  \* registry has followed it: its argument, whether the same
                  \* argument was passed once or twice in a row, and whether
                  \* the first of these calls added the entry
  requests,       \* number of /request calls started
  pc,             \* where the /request handler is
  query,          \* req.body.query
  analysis,       \* result of analyzeRequest
  plan,           \* result of createExecutionPlan
  stepIndex,      \* position of the for loop of executeRequest in plan.steps
  stepResults,    \* stepResults of executeRequest
  calls,          \* the calls of executeTool made so far: <<[stepId, ref, params]>>
  outcome         \* what executeRequest returned, or the error it threw

registryVars == <<tools, idPending, lastRegistered>>
requestVars == <<requests, pc, query, analysis, plan, stepIndex, stepResults, calls, outcome>>
vars == <<tools, idPending, lastRegistered, requests, pc, query, analysis, plan,
          stepIndex, stepResults, calls, outcome>>

None == [t |-> "none"]
NoResults == [k \in {} |-> None]

Init ==
  /\ tools = <<>>
  /\ idPending = {}
  /\ lastRegistered = None
  /\ requests = 0
  /\ pc = "idle"
  /\ query = ""
  /\ analysis = None
  /\ plan = None
  /\ stepIndex = 0
  /\ stepResults = NoResults
  /\ calls = <<>>
  /\ outcome = None

\* The handlers run on one event loop: another handler runs only while the
\* /request handler is not started or waits for a tool's own asynchronous
\* work (tool.execute, the timer of executeMcpServer).
Yielded == pc \in {"idle", "invoking"}

\* does registerTool(tool) fit in the modelled registry
Fits(tool) == FindIndex(tools, tool) > 0 \/ Len(tools) < MaxTools

(***************************************************************************)
(* Registry writers.                                                       *)
(***************************************************************************)
\* the record of a registerTool(tool) call
NoteRegister(tool) ==
  IF lastRegistered # None /\ lastRegistered.payload = tool
    THEN [payload |-> tool, times |-> 2, fresh |-> lastRegistered.fresh]
    ELSE [payload |-> tool, times |-> 1, fresh |-> FindIndex(tools, tool) = 0]

\* scanForTools: registerTool for one definition file
ScanRegister(tool) ==
  /\ Yielded
  /\ Fits(tool)
  /\ tools' = registerTool(tools, tool)
  /\ lastRegistered' = NoteRegister(tool)
  /\ UNCHANGED <<idPending>>
  /\ UNCHANGED requestVars

\* !definition.id
LacksId(definition) == ~Has(definition, "id") \/ definition.id = ""

\* POST /register up to the first wait of generateToolDefinition.  The
\* registry keeps the request body itself when the id is new, so the
\* handler's later write to definition.id lands in the registry.
RouteRegister(tool) ==
  /\ Yielded
  /\ Has(tool, "name") /\ tool.name # ""
  /\ Fits(tool)
  /\ tools' = registerTool(tools, tool)
  /\ lastRegistered' = NoteRegister(tool)
  /\ idPending' =
       IF /\ Has(tool, "type") /\ tool.type = "mcp-server"
          /\ FindIndex(tools, tool) = 0
          /\ LacksId(tool)
         THEN idPending \cup {Len(tools) + 1}
         ELSE idPending
  /\ UNCHANGED requestVars

\* createMcpServer: the definition as it is passed to registerTool
ServerDefinition(definition, now) ==
  ObjectAssign(definition,
    IF LacksId(definition)
      THEN [id |-> "mcp-server-" \o ToString(now), type |-> "mcp-server"]
      ELSE [type |-> "mcp-server"])

\* POST /create-server: createMcpServer(req.body).  generateMcpServerTemplate
\* then finds the id set and leaves the definition alone.
CreateMcpServer(definition, now) ==
  /\ Yielded
  /\ Has(definition, "name") /\ definition.name # ""
  /\ Fits(ServerDefinition(definition, now))
  /\ tools' = registerTool(tools, ServerDefinition(definition, now))
  /\ lastRegistered' = NoteRegister(ServerDefinition(definition, now))
  /\ UNCHANGED <<idPending>>
  /\ UNCHANGED requestVars

\* generateToolDefinition after fs.access: definition.id = slug of the name
GenerateToolDefinition(i) ==
  /\ Yielded
  /\ i \in idPending
  /\ idPending' = idPending \ {i}
  /\ tools' = IF LacksId(tools[i])
                THEN [tools EXCEPT ![i] = ObjectAssign(tools[i], [id |-> Slugify(tools[i].name)])]
                ELSE tools
  /\ lastRegistered' = None
  /\ UNCHANGED requestVars

(***************************************************************************)
(* POST /request: analyzeRequest, createExecutionPlan, executeRequest.     *)
(***************************************************************************)
Analyze(q) ==
  /\ pc = "idle"
  /\ requests < MaxRequests
  /\ requests' = requests + 1
  /\ query' = q
  /\ analysis' = analyzeRequest(q, tools)
  /\ pc' = "analyzed"
  /\ plan' = None
  /\ stepIndex' = 0
  /\ stepResults' = NoResults
  /\ calls' = <<>>
  /\ outcome' = None
  /\ UNCHANGED registryVars

Plan(now, rnd) ==
  /\ pc = "analyzed"
  /\ plan' = createExecutionPlan(analysis, tools, now, rnd)
  /\ pc' = "planned"
  /\ UNCHANGED <<requests, query, analysis, stepIndex, stepResults, calls, outcome>>
  /\ UNCHANGED registryVars

\* variant: errorMessage is never set
ExecutionResultNoError(success, results, error) ==
  [ planId      |-> plan.planId,
    success     |-> success,
    stepResults |-> results,
    error       |-> JNull ]

\* the object executeRequest returns after its loop
ExecutionResult(success, results, error) ==
  [ planId      |-> plan.planId,
    success     |-> success,
    stepResults |-> results,
    error       |-> error ]

\* executeRequest up to its loop
ExecuteStart ==
  /\ pc = "planned"
  /\ IF ~Has(plan, "steps")
       THEN \* plan.steps.length in the first log line
            /\ pc' = "threw"
            /\ outcome' = JError("Cannot read properties of undefined (reading 'length')")
            /\ UNCHANGED <<stepIndex>>
     ELSE IF ~plan.canExecute
       THEN /\ pc' = "returned"
            /\ outcome' =
                 ObjectAssign(
                   [ success |-> FALSE,
                     reason  |-> IF Has(plan, "reason") /\ plan.reason # ""
                                   THEN plan.reason ELSE "Plan cannot be executed" ],
                   IF Has(plan, "suggestedTools")
                     THEN [suggestedTools |-> plan.suggestedTools] ELSE EmptyObject)
            /\ UNCHANGED <<stepIndex>>
     ELSE  /\ pc' = "running"
           /\ stepIndex' = 1
           /\ outcome' = None
  /\ UNCHANGED <<requests, query, analysis, plan, stepResults, calls>>
  /\ UNCHANGED registryVars

\* variant: no break after a failed step
FailStepNoBreak(step, recorded, message) ==
  /\ stepResults' = ObjectAssign(stepResults,
                      [k \in {step.stepId} |-> [success |-> FALSE, error |-> recorded]])
  /\ IF stepIndex = Len(plan.steps)
       THEN /\ outcome' = [ planId |-> plan.planId, success |-> FALSE,
                            stepResults |-> stepResults', error |-> JString(message) ]
            /\ pc' = "returned"
            /\ UNCHANGED stepIndex
       ELSE /\ stepIndex' = stepIndex + 1
            /\ pc' = "running"
            /\ UNCHANGED outcome

\* variant: the failed run reports only the failed step
FailStepForgetsPrior(step, recorded, message) ==
  /\ stepResults' = [k \in {step.stepId} |-> [success |-> FALSE, error |-> recorded]]
  /\ outcome' = [ planId |-> plan.planId, success |-> FALSE,
                  stepResults |-> stepResults', error |-> JString(message) ]
  /\ pc' = "returned"
  /\ UNCHANGED stepIndex

\* a step failed: record it, break, return
FailStep(step, recorded, message) ==
  /\ stepResults' = ObjectAssign(stepResults,
                      [k \in {step.stepId} |-> [success |-> FALSE, error |-> recorded]])
  /\ outcome' = ExecutionResult(FALSE, stepResults', JString(message))
  /\ pc' = "returned"
  /\ UNCHANGED stepIndex

\* the catch block of the loop, for the thrown value e
CatchStep(step, e) ==
  IF IsNullish(e)
    THEN \* error.message throws inside the catch block
         /\ pc' = "threw"
         /\ outcome' = JError("Cannot read properties of " \o e.t \o " (reading 'message')")
         /\ UNCHANGED <<stepIndex, stepResults>>
    ELSE FailStep(step, GetProp(e, "message"),
                  "Error in step " \o step.stepId \o ": " \o Text(GetProp(e, "message")))

\* variant: the loop stays on a step that succeeded
SucceedStepRetry(step, value) ==
  /\ stepResults' = ObjectAssign(stepResults,
                      [k \in {step.stepId} |-> [success |-> TRUE, result |-> value]])
  /\ IF stepIndex = Len(plan.steps)
       THEN /\ outcome' = ExecutionResult(TRUE, stepResults', JNull)
            /\ pc' = "returned"
            /\ UNCHANGED stepIndex
       ELSE /\ pc' = "running"
            /\ UNCHANGED <<stepIndex, outcome>>

\* a step succeeded: record it and go on, or return after the last step
SucceedStep(step, value) ==
  /\ stepResults' = ObjectAssign(stepResults,
                      [k \in {step.stepId} |-> [success |-> TRUE, result |-> value]])
  /\ IF stepIndex = Len(plan.steps)
       THEN /\ outcome' = ExecutionResult(TRUE, stepResults', JNull)
            /\ pc' = "returned"
            /\ UNCHANGED stepIndex
       ELSE /\ stepIndex' = stepIndex + 1
            /\ pc' = "running"
            /\ UNCHANGED outcome

\* one iteration of the loop, up to the point where the tool's own work starts
StepBegin ==
  /\ pc = "running"
  /\ LET step == plan.steps[stepIndex]
         ref  == getToolInstance(tools, step)
         in   == transformInputParams(step, stepResults, plan.dataFlow)
         call == [stepId |-> step.stepId, ref |-> ref, params |-> in.params]
     IN  IF ref = 0
           THEN /\ FailStep(step, JString("Tool " \o StepToolText(step) \o " not found"),
                            "Tool " \o StepToolText(step) \o " not found")
                /\ UNCHANGED calls
         ELSE IF ~in.ok
           THEN CatchStep(step, in.error) /\ UNCHANGED calls
         ELSE
           /\ calls' = Append(calls, call)
           /\ CASE Strategy(tools[ref]) = "execute" ->
                     pc' = "invoking" /\ UNCHANGED <<stepIndex, stepResults, outcome>>
                [] Strategy(tools[ref]) = "declarative" ->
                     LET r == executeDeclarativeTool(tools[ref], in.params)
                     IN  IF r.ok THEN SucceedStep(step, r.value) ELSE CatchStep(step, r.error)
                [] Strategy(tools[ref]) = "mcp-server" ->
                     IF ~Has(tools[ref], "apiEndpoint") \/ tools[ref].apiEndpoint = ""
                       THEN CatchStep(step, JError("MCP server " \o IdText(tools[ref])
                                                   \o " doesn't have an API endpoint"))
                       ELSE pc' = "invoking" /\ UNCHANGED <<stepIndex, stepResults, outcome>>
                [] OTHER ->
                     CatchStep(step, JError("Tool " \o IdText(tools[ref])
                                            \o " doesn't have a valid execution mechanism"))
  /\ UNCHANGED <<requests, query, analysis, plan>>
  /\ UNCHANGED registryVars

\* the ways the awaited call of the current step can end
InvocationEnds(tool) ==
  IF Strategy(tool) = "execute"
    THEN {[ok |-> TRUE, value |-> v] : v \in ReturnValues}
         \cup {[ok |-> FALSE, error |-> e] : e \in ThrownValues}
    ELSE {[ok |-> TRUE, value |-> McpResult(tool)]}

\* the awaited tool call settles; the rest of the iteration follows
StepEnd ==
  /\ pc = "invoking"
  /\ LET step == plan.steps[stepIndex]
         tool == tools[calls[Len(calls)].ref]
     IN  \E r \in InvocationEnds(tool) :
            IF r.ok THEN SucceedStep(step, r.value) ELSE CatchStep(step, r.error)
  /\ UNCHANGED <<requests, query, analysis, plan, calls>>
  /\ UNCHANGED registryVars

\* res.json(...) or res.status(500): the handler is over
Respond ==
  /\ pc \in {"returned", "threw"}
  /\ pc' = "idle"
  /\ query' = ""
  /\ analysis' = None
  /\ plan' = None
  /\ stepIndex' = 0
  /\ stepResults' = NoResults
  /\ calls' = <<>>
  /\ outcome' = None
  /\ UNCHANGED requests
  /\ UNCHANGED registryVars

Next ==
  \/ \E tool \in ScanPayloads : ScanRegister(tool)
  \/ \E tool \in RoutePayloads : RouteRegister(tool)
  \/ \E definition \in ServerPayloads, now \in Clock : CreateMcpServer(definition, now)
  \/ \E i \in idPending : GenerateToolDefinition(i)
  \/ \E q \in Queries : Analyze(q)
  \/ \E now \in Clock, rnd \in Randoms : Plan(now, rnd)
  \/ ExecuteStart
  \/ StepBegin
  \/ StepEnd
  \/ Respond

Spec == Init /\ [][Next]_vars

TypeOK ==
  /\ Len(tools) <= MaxTools
  /\ requests <= MaxRequests
  /\ pc \in {"idle", "analyzed", "planned", "running", "invoking", "returned", "threw"}

(***************************************************************************)
(* Properties.                                                             *)
(***************************************************************************)

\* C1: executeRequest on a plan whose canExecute is false (the plan built for
\* an empty matchedTools included) returns a failed result that carries the
\* plan's reason and suggestedTools, calls no tool, and does not throw.
C1_NonExecutableReturnsFailure ==
  (pc \in {"returned", "threw"} /\ ~plan.canExecute) =>
     /\ pc = "returned"
     /\ outcome.success = FALSE
     /\ (Has(plan, "reason") => outcome.reason = plan.reason)
     /\ (Has(plan, "suggestedTools") =>
           Has(outcome, "suggestedTools") /\ outcome.suggestedTools = plan.suggestedTools)
     /\ calls = <<>>

\* C2: while a run goes on, no recorded StepResult is a failure; in the
\* returned result the keys are the stepIds of the attempted prefix of the
\* chain, every entry before the last attempted step is a success, and no
\* tool of a later step was called.
C2_FailFastPrefix ==
  /\ (pc \in {"running", "invoking"}) =>
        \A k \in DOMAIN stepResults : stepResults[k].success
  /\ (pc = "returned" /\ plan.canExecute) =>
        LET steps  == plan.steps
            prefix == {steps[i].stepId : i \in 1..stepIndex}
        IN  /\ DOMAIN outcome.stepResults = prefix
            /\ \A i \in 1..(stepIndex - 1) : outcome.stepResults[steps[i].stepId].success
            /\ \A c \in 1..Len(calls) : calls[c].stepId \in prefix

\* a failed run that stopped at step 2 or later, before the end of the chain
C2_Witness ==
  /\ pc = "returned"
  /\ plan.canExecute
  /\ ~outcome.success
  /\ stepIndex >= 2
  /\ stepIndex < Len(plan.steps)

\* C3: when the loop reaches a step whose tool id is in no registry entry,
\* the run returns success = false with the error `Tool <id> not found`,
\* a failed StepResult for that step, and the successful StepResults of the
\* steps before it.
C3_MissingToolFailsRun ==
  [][ (pc = "running" /\ getToolInstance(tools, plan.steps[stepIndex]) = 0) =>
        LET step == plan.steps[stepIndex]
            text == "Tool " \o (IF Has(step, "toolId") THEN step.toolId ELSE "undefined")
                    \o " not found"
        IN  /\ pc' = "returned"
            /\ outcome'.success = FALSE
            /\ outcome'.error = JString(text)
            /\ step.stepId \in DOMAIN outcome'.stepResults
            /\ outcome'.stepResults[step.stepId] = [success |-> FALSE, error |-> JString(text)]
            /\ \A i \in 1..(stepIndex - 1) :
                  /\ plan.steps[i].stepId \in DOMAIN outcome'.stepResults
                  /\ outcome'.stepResults[plan.steps[i].stepId] = stepResults[plan.steps[i].stepId]
                  /\ outcome'.stepResults[plan.steps[i].stepId].success
            /\ calls' = calls
    ]_vars

\* a run that failed at step 2 or later because the step's tool was not found
C3_Witness ==
  /\ pc = "returned"
  /\ plan.canExecute
  /\ stepIndex >= 2
  /\ getToolInstance(tools, plan.steps[stepIndex]) = 0
  /\ Len(calls) = stepIndex - 1
  /\ outcome.error = JString("Tool " \o StepToolText(plan.steps[stepIndex]) \o " not found")

\* C4: for an executable plan the result has success = true exactly when
\* every step of the plan has a successful StepResult; error is null exactly
\* when success = true; a failed result has one failed StepResult, that of
\* the last attempted step, its error describes that step, and it carries
\* the StepResults recorded so far.
C4_SuccessIffAllSteps ==
  (pc = "returned" /\ plan.canExecute) =>
     LET steps   == plan.steps
         r       == outcome.stepResults
         allOk   == \A i \in 1..Len(steps) :
                       steps[i].stepId \in DOMAIN r /\ r[steps[i].stepId].success
         failing == {i \in 1..Len(steps) :
                       steps[i].stepId \in DOMAIN r /\ ~r[steps[i].stepId].success}
         last    == steps[stepIndex]
     IN  /\ outcome.success <=> allOk
         /\ (outcome.error = JNull) <=> outcome.success
         /\ r = stepResults
         /\ ~outcome.success =>
               /\ failing = {stepIndex}
               /\ outcome.error \in
                    { JString("Tool " \o StepToolText(last) \o " not found"),
                      JString("Error in step " \o last.stepId \o ": "
                              \o Text(r[last.stepId].error)) }

\* a run whose first step threw and whose plan has further steps
C4_Witness ==
  /\ pc = "returned"
  /\ plan.canExecute
  /\ Len(plan.steps) >= 2
  /\ outcome.error = JString("Error in step step_1: boom")
  /\ DOMAIN outcome.stepResults = {"step_1"}

\* C5: a plan built from N >= 1 addressed intents has N steps with the ids
\* step_1 .. step_N in emission order and N - 1 data-flow edges, the i-th
\* from step_i to step_(i+1), each mapping result to input.
C5_LinearChain ==
  pc = "planned" =>
     LET intents == analysis.intents
         matched == analysis.matchedTools
         declares(m, intent) ==
           /\ CapHas(tools[matched[m].ref], "intents")
           /\ SeqIncludes(tools[matched[m].ref].capabilities.intents, intent)
         addressed ==
           FilterIdx(intents,
                     [i \in 1..Len(intents) |->
                        /\ intents[i] # UNKNOWN
                        /\ \E m \in 1..Len(matched) : declares(m, intents[i])], 1)
         N == Len(addressed)
     IN  N >= 1 =>
           /\ Has(plan, "steps")
           /\ Len(plan.steps) = N
           /\ \A i \in 1..N :
                 /\ plan.steps[i].stepId = "step_" \o ToString(i)
                 /\ plan.steps[i].intent = addressed[i]
           /\ Len(plan.dataFlow) = N - 1
           /\ \A i \in 1..(N - 1) :
                 /\ plan.dataFlow[i].key =
                      "step_" \o ToString(i) \o ":" \o "step_" \o ToString(i + 1)
                 /\ plan.dataFlow[i].value =
                      [ from |-> "step_" \o ToString(i),
                        to   |-> "step_" \o ToString(i + 1),
                        mappings |-> << [fromParam |-> "result", toParam |-> "input"] >> ]

\* a plan of three steps
C5_Witness ==
  /\ pc = "planned"
  /\ Has(plan, "steps")
  /\ Len(plan.steps) = 3
  /\ Len(plan.dataFlow) = 2

\* C6: the plan's canExecute is true exactly when the plan has at least one step.
C6_ExecutableIffSteps ==
  pc = "planned" =>
     (plan.canExecute <=> (Has(plan, "steps") /\ Len(plan.steps) > 0))

\* tools were matched, yet none declares a query intent other than UNKNOWN
C6_Witness ==
  /\ pc = "planned"
  /\ Len(analysis.matchedTools) > 0
  /\ Has(plan, "steps")
  /\ Len(plan.steps) = 0
  /\ ~plan.canExecute

\* C7: with no matched tool the plan has canExecute = false and one
\* suggestion, with a description and a template, per intent other than
\* UNKNOWN, in order.
C7_EmptyMatchSuggestions ==
  (pc = "planned" /\ Len(analysis.matchedTools) = 0) =>
     LET intents == analysis.intents
         known   == FilterIdx(intents, [i \in 1..Len(intents) |-> intents[i] # UNKNOWN], 1)
     IN  /\ plan.canExecute = FALSE
         /\ Has(plan, "suggestedTools")
         /\ Len(plan.suggestedTools) = Len(known)
         /\ \A i \in 1..Len(known) :
               /\ plan.suggestedTools[i].intent = known[i]
               /\ Len(plan.suggestedTools[i].description) > 0
               /\ plan.suggestedTools[i].template.capabilities.intents = <<known[i]>>
         /\ (Len(known) > 0 => Len(plan.suggestedTools) > 0)

\* no tool matched a query that has two intents
C7_Witness ==
  /\ pc = "planned"
  /\ Len(analysis.matchedTools) = 0
  /\ ~SeqIncludes(analysis.intents, UNKNOWN)
  /\ Len(plan.suggestedTools) = 2

\* C8: the sales query against a registry of a DATA_PROCESSING/csv tool and
\* a VISUALIZATION/bar_chart tool is planned as two steps, the first tool as
\* step_1 and the second as step_2, with the one edge step_1 -> step_2;
\* the run of that plan in which both tools are called returns success = true
\* with exactly the two StepResults.
C8_SalesEndToEnd ==
  LET twoSteps ==
        /\ Has(plan, "steps")
        /\ Len(plan.steps) = 2
        /\ plan.steps[1].stepId = "step_1"
        /\ plan.steps[1].intent = "DATA_PROCESSING"
        /\ Has(plan.steps[1], "toolId") /\ plan.steps[1].toolId = CsvExtractor.id
        /\ plan.steps[2].stepId = "step_2"
        /\ plan.steps[2].intent = "VISUALIZATION"
        /\ Has(plan.steps[2], "toolId") /\ plan.steps[2].toolId = ChartMaker.id
        /\ Len(plan.dataFlow) = 1
        /\ plan.dataFlow[1].value.from = "step_1"
        /\ plan.dataFlow[1].value.to = "step_2"
  IN  /\ (/\ pc = "planned"
          /\ query = SalesQuery
          /\ tools \in {<<CsvExtractor, ChartMaker>>, <<ChartMaker, CsvExtractor>>})
         => (plan.canExecute /\ twoSteps)
      /\ (/\ pc = "returned"
          /\ query = SalesQuery
          /\ plan.canExecute
          /\ twoSteps
          /\ Len(calls) = 2)
         => /\ outcome.success
            /\ DOMAIN outcome.stepResults = {"step_1", "step_2"}
            /\ \A k \in DOMAIN outcome.stepResults : outcome.stepResults[k].success

\* the sales query served to the end against the two-tool registry
C8_Witness ==
  /\ pc = "returned"
  /\ query = SalesQuery
  /\ tools \in {<<CsvExtractor, ChartMaker>>, <<ChartMaker, CsvExtractor>>}
  /\ plan.canExecute
  /\ Len(plan.steps) = 2
  /\ Len(calls) = 2
  /\ outcome.success

\* C9 as stated: the sales query is classified as exactly
\* [DATA_PROCESSING, VISUALIZATION], with files [sales.csv] and
\* visualizationTypes [bar_chart].
C9_AsStated ==
  (pc = "analyzed" /\ query = SalesQuery) =>
     /\ analysis.intents = <<"DATA_PROCESSING", "VISUALIZATION">>
     /\ analysis.entities.files = <<"sales.csv">>
     /\ analysis.entities.visualizationTypes = <<"bar_chart">>

\* C9: the sales query is classified as exactly
\* [FILE_OPERATION, DATA_PROCESSING, VISUALIZATION] (its "csv" is a
\* FILE_OPERATION keyword), with files [sales.csv] and visualizationTypes
\* [bar_chart].
C9_SalesClassification ==
  (pc = "analyzed" /\ query = SalesQuery) =>
     /\ analysis.intents = <<"FILE_OPERATION", "DATA_PROCESSING", "VISUALIZATION">>
     /\ analysis.entities.files = <<"sales.csv">>
     /\ analysis.entities.visualizationTypes = <<"bar_chart">>

\* the sales query has been analysed
C9_Witness ==
  /\ pc = "analyzed"
  /\ query = SalesQuery
  /\ Len(analysis.intents) = 3

\* C10 as stated: the second of two registerTool calls in a row with the same
\* payload, which has an id, leaves the length of the list and the position
\* of the entry unchanged, and the stored descriptor equals the payload.
C10_AsStated ==
  [][ (/\ lastRegistered # None
       /\ lastRegistered' # None
       /\ lastRegistered.times = 1
       /\ lastRegistered'.times = 2
       /\ Has(lastRegistered.payload, "id")
       /\ lastRegistered.payload.id # "") =>
        LET p == lastRegistered.payload
            pos == FindIndex(tools, p)
        IN  /\ Len(tools') = Len(tools)
            /\ FindIndex(tools', p) = pos
            /\ tools'[pos] = p
    ]_vars

\* C10: the second of two registerTool calls in a row with the same payload,
\* which has an id, leaves the list as the first call left it (length,
\* position and content of every entry); every field of the payload has the
\* payload's value in the stored descriptor, and the descriptor equals the
\* payload when the first call added the entry.
C10_IdempotentUpsert ==
  [][ (/\ lastRegistered # None
       /\ lastRegistered' # None
       /\ lastRegistered.times = 1
       /\ lastRegistered'.times = 2
       /\ Has(lastRegistered.payload, "id")
       /\ lastRegistered.payload.id # "") =>
        LET p == lastRegistered.payload
            pos == FindIndex(tools, p)
        IN  /\ pos > 0
            /\ Len(tools') = Len(tools)
            /\ FindIndex(tools', p) = pos
            /\ tools' = tools
            /\ \A f \in DOMAIN p : Has(tools'[pos], f) /\ tools'[pos][f] = p[f]
            /\ (lastRegistered.fresh => tools'[pos] = p)
    ]_vars

\* a payload registered twice in a row over an entry that an earlier
\* definition of the same id had created
C10_Witness ==
  /\ lastRegistered # None
  /\ lastRegistered.times = 2
  /\ Has(lastRegistered.payload, "id")
  /\ ~lastRegistered.fresh
  /\ tools[FindIndex(tools, lastRegistered.payload)] # lastRegistered.payload

\* a registerTool(tool) call has just been made with the payload
\* lastRegistered'.payload
RegisterStep ==
  /\ lastRegistered' # None
  /\ lastRegistered' # lastRegistered

\* C11: registerTool(tool) is an upsert by id.  With no entry of tool.id the
\* tool is appended and the existing entries are unchanged, in their order;
\* otherwise the first entry of that id keeps its position, has the payload's
\* value in every field of the payload and its old value in every other
\* field, and the other entries are unchanged.  No step of the program
\* removes an id from the list.
C11_UpsertById ==
  [][ /\ RegisterStep =>
           LET p == lastRegistered'.payload
               e == FindIndex(tools, p)
           IN  IF e = 0
                 THEN /\ Len(tools') = Len(tools) + 1
                      /\ tools'[Len(tools')] = p
                      /\ \A i \in 1..Len(tools) : tools'[i] = tools[i]
                 ELSE /\ Len(tools') = Len(tools)
                      /\ \A i \in 1..Len(tools) : i # e => tools'[i] = tools[i]
                      /\ SameId(tools'[e], p)
                      /\ DOMAIN tools'[e] = DOMAIN tools[e] \cup DOMAIN p
                      /\ \A f \in DOMAIN p : tools'[e][f] = p[f]
                      /\ \A f \in DOMAIN tools[e] \ DOMAIN p : tools'[e][f] = tools[e][f]
      /\ Len(tools') >= Len(tools)
      /\ \A i \in 1..Len(tools) :
            Has(tools[i], "id") =>
              \E j \in 1..Len(tools') : Has(tools'[j], "id") /\ tools'[j].id = tools[i].id
    ]_vars

\* an entry that holds fields of two registrations of its id: executionConfig
\* of the first, name and defaultParams of the second
C11_Witness ==
  \E i \in 1..Len(tools) :
     /\ Has(tools[i], "id") /\ tools[i].id = "csv-extractor"
     /\ Has(tools[i], "executionConfig")
     /\ Has(tools[i], "defaultParams")
     /\ tools[i].name = "CSV Extractor 2"

\* C12: in every reachable state of the registry no two entries have the
\* same id, whichever of scanForTools, /register and createMcpServer made
\* the registrations.
C12_UniqueIds ==
  \A i, j \in 1..Len(tools) :
     (i # j /\ Has(tools[i], "id") /\ Has(tools[j], "id")) => tools[i].id # tools[j].id

\* C13: when registerTool is called with a tool that has no id, the tool is
\* stored under the slug of its name: right after the call exactly one entry
\* has that slug as its id, and it carries the tool's name.
C13_SlugBeforeLookup ==
  [][ (RegisterStep /\ LacksId(lastRegistered'.payload)) =>
        LET p == lastRegistered'.payload
            stored == { i \in 1..Len(tools') :
                          Has(tools'[i], "id") /\ tools'[i].id = Slugify(p.name) }
        IN  /\ Cardinality(stored) = 1
            /\ \A i \in stored : tools'[i].name = p.name
    ]_vars

\* C14: what a caller obtained from getTools() is not changed by a later
\* registerTool call: the descriptors the matcher took from the list and
\* the /request handler still holds in analysis.matchedTools keep their
\* field values.
C14_ListIsSnapshot ==
  [][ (RegisterStep /\ pc \notin {"idle"} /\ analysis # None) =>
        \A k \in 1..Len(analysis.matchedTools) :
           tools'[analysis.matchedTools[k].ref] = tools[analysis.matchedTools[k].ref]
    ]_vars

\* C15: whatever the interleaving of registerTool calls with the readers of
\* the registry, every entry a reader can see after a registerTool call is
\* the entry as it was before the call or that entry with the whole payload
\* merged in; no state shows an entry with only part of the payload applied.
C15_NoPartialMerge ==
  [][ RegisterStep =>
        \A i \in 1..Len(tools) :
           \/ tools'[i] = tools[i]
           \/ tools'[i] = ObjectAssign(tools[i], lastRegistered'.payload)
    ]_vars

\* a request waits for its tool while a re-registration has been merged into
\* the entry of a tool the plan was built from
C15_Witness ==
  /\ pc = "invoking"
  /\ lastRegistered # None
  /\ ~lastRegistered.fresh
  /\ \E k \in 1..Len(plan.steps) :
        /\ plan.steps[k].toolName = "CSV Extractor"
        /\ getToolInstance(tools, plan.steps[k]) > 0
        /\ tools[getToolInstance(tools, plan.steps[k])].name = "CSV Extractor 2"

\* the queries that contain a keyword of some intent table
WithIntentKeyword ==
  { q \in Queries :
      \E r \in 1..Len(IntentKeywords) :
         \E k \in 1..Len(IntentKeywords[r].kws) :
            Includes(ToLowerCase(q), IntentKeywords[r].kws[k]) }

\* C16: analyzeRequest always returns a non-empty intent list; a query with
\* no keyword of any intent table gets exactly [UNKNOWN]; UNKNOWN never comes
\* with another intent; the confidence is 0.4 when UNKNOWN is not among the
\* intents, plus 0.15 for each non-empty entity category, at most 1.0, hence
\* 0 for [UNKNOWN] with no entity (confidence counted in hundredths).
C16_ClassifyFallbackAndConfidence ==
  (analysis # None) =>
     LET intents  == analysis.intents
         entities == analysis.entities
         nonEmpty == { c \in {"files", "dataTypes", "codeLanguages", "visualizationTypes"} :
                         Len(entities[c]) > 0 }
         unknown  == \E k \in 1..Len(intents) : intents[k] = "UNKNOWN"
     IN  /\ Len(intents) >= 1
         /\ (analysis.query \notin WithIntentKeyword) => intents = <<"UNKNOWN">>
         /\ unknown => intents = <<"UNKNOWN">>
         /\ analysis.confidence = (IF unknown THEN 0 ELSE 40) + 15 * Cardinality(nonEmpty)
         /\ analysis.confidence <= 100
         /\ (unknown /\ nonEmpty = {}) => analysis.confidence = 0

\* a query without keyword and without entity has been analysed, with
\* confidence 0
C16_Witness ==
  /\ pc = "analyzed"
  /\ query = PlainQuery
  /\ analysis.intents = <<"UNKNOWN">>
  /\ analysis.confidence = 0

\* C17: a registry tool is in matchedTools exactly when its declared intents
\* intersect the query's intents and its score is positive, the score being
\* 10 per query file with a declared extension, 5 per declared data type,
\* 8 per declared language and 7 per declared visualization type found in
\* the query; the reported score is that number; a tool whose capabilities
\* object is empty, or that shares no entity value with the query, is left out.
C17_MatchIffIntentAndScore ==
  (pc = "analyzed") =>
     LET ents == analysis.entities
         declared(t, f) ==
           IF Has(t, "capabilities") /\ Has(t.capabilities, f)
             THEN {t.capabilities[f][k] : k \in 1..Len(t.capabilities[f])}
             ELSE {}
         hits(values, set) == Cardinality({k \in 1..Len(values) : values[k] \in set})
         extensions == [k \in 1..Len(ents.files) |-> ToLowerCase(SplitPop(ents.files[k]))]
         score(t) == 10 * hits(extensions, declared(t, "fileTypes"))
                     + 5 * hits(ents.dataTypes, declared(t, "dataTypes"))
                     + 8 * hits(ents.codeLanguages, declared(t, "languages"))
                     + 7 * hits(ents.visualizationTypes, declared(t, "visualizationTypes"))
         intersects(t) ==
           \E k \in 1..Len(analysis.intents) : analysis.intents[k] \in declared(t, "intents")
         matched == analysis.matchedTools
     IN  /\ \A i \in 1..Len(tools) :
               (\E k \in 1..Len(matched) : matched[k].ref = i)
                 <=> (intersects(tools[i]) /\ score(tools[i]) > 0)
         /\ \A k \in 1..Len(matched) : matched[k].score = score(tools[matched[k].ref])
         /\ \A k, l \in 1..Len(matched) : matched[k].ref = matched[l].ref => k = l
         /\ \A i \in 1..Len(tools) :
               (Has(tools[i], "capabilities") /\ DOMAIN tools[i].capabilities = {})
                 => \A k \in 1..Len(matched) : matched[k].ref # i

\* the analysis of a query with two .md files over a tool that declares the
\* query's intent but none of its entity values (left out) and a tool that
\* declares the intent and md (matched with score 20)
C17_Witness ==
  /\ pc = "analyzed"
  /\ query = FullQuery
  /\ Len(analysis.matchedTools) = 1
  /\ analysis.matchedTools[1].score = 20
  /\ \E i \in 1..Len(tools) :
        /\ CapHas(tools[i], "intents")
        /\ tools[i].capabilities.intents = <<"DATA_PROCESSING">>
        /\ analysis.matchedTools[1].ref # i

\* the params the claim calls entity-derived, for a step of the plan
C18_FromEntities(step) ==
  LET e == analysis.entities
      files == IF Len(e.files) > 0 THEN {e.files[1]} ELSE {}
      types == IF Len(e.dataTypes) > 0 THEN {e.dataTypes[1]} ELSE {}
      langs == IF Len(e.codeLanguages) > 0 THEN {e.codeLanguages[1]} ELSE {}
      charts == IF Len(e.visualizationTypes) > 0 THEN {e.visualizationTypes[1]} ELSE {}
  IN  [ filePath          |-> IF step.intent = "FILE_OPERATION" THEN files ELSE {},
        inputFile         |-> IF step.intent = "DATA_PROCESSING" THEN files ELSE {},
        dataType          |-> IF step.intent = "DATA_PROCESSING" THEN types ELSE {},
        language          |-> IF step.intent = "CODE_GENERATION" THEN langs ELSE {},
        dataSource        |-> IF step.intent = "VISUALIZATION" THEN files ELSE {},
        visualizationType |-> IF step.intent = "VISUALIZATION" THEN charts ELSE {} ]

\* the defaultParams of the tool a step of the fresh plan was built for
C18_ToolDefaults(step) ==
  LET tool == tools[getToolInstance(tools, step)]
  IN  IF Has(tool, "defaultParams") THEN tool.defaultParams ELSE EmptyObject

\* C18 as stated: in every step of a plan, a key that both the entities and
\* the selected tool's defaultParams define has the tool's default value.
C18_AsStated ==
  (pc = "planned" /\ Has(plan, "steps")) =>
     \A n \in 1..Len(plan.steps) :
        LET step == plan.steps[n]
            fromEntities == C18_FromEntities(step)
            defaults == C18_ToolDefaults(step)
        IN  \A key \in DOMAIN defaults :
               (key \in DOMAIN fromEntities /\ fromEntities[key] # {})
                 => step.inputParams[key] = defaults[key]

\* C18: in every step of a plan, a key that both the entities and the
\* selected tool's defaultParams define has the entity-derived value; a key
\* only one of them defines has that one's value; there is no other key.
C18_EntitiesOverrideDefaults ==
  (pc = "planned" /\ Has(plan, "steps")) =>
     \A n \in 1..Len(plan.steps) :
        LET step == plan.steps[n]
            fromEntities == C18_FromEntities(step)
            defaults == C18_ToolDefaults(step)
            derivedKeys == {key \in DOMAIN fromEntities : fromEntities[key] # {}}
        IN  /\ DOMAIN step.inputParams = derivedKeys \cup DOMAIN defaults
            /\ \A key \in derivedKeys : step.inputParams[key] \in fromEntities[key]
            /\ \A key \in DOMAIN defaults \ derivedKeys :
                  step.inputParams[key] = defaults[key]

\* a plan for the sales query with a step whose tool has the defaults
\* inputFile = default.csv and format = json: the step's inputFile is
\* sales.csv, its format json
C18_Witness ==
  /\ pc = "planned"
  /\ Has(plan, "steps")
  /\ \E n \in 1..Len(plan.steps) :
        /\ plan.steps[n].intent = "DATA_PROCESSING"
        /\ C18_ToolDefaults(plan.steps[n]) = [inputFile |-> "default.csv", format |-> "json"]
        /\ plan.steps[n].inputParams.inputFile = "sales.csv"
        /\ plan.steps[n].inputParams.format = "json"

\* C19: when the loop of executeRequest reaches a step whose tool is
\* registered, executeTool is called with the step's declared inputParams,
\* overlaid with every mapped field that a successful source step's result
\* has; a mapped field the source result does not have, whatever the source
\* tool returned, is skipped and the step is still invoked.
C19_AbsentFieldSkipped ==
  [][ (pc = "running" /\ getToolInstance(tools, plan.steps[stepIndex]) # 0) =>
        LET step == plan.steps[stepIndex]
            declared == [k \in DOMAIN step.inputParams |-> JString(step.inputParams[k])]
            edges == { c \in 1..Len(plan.dataFlow) :
                         /\ plan.dataFlow[c].value.to = step.stepId
                         /\ plan.dataFlow[c].value.from \in DOMAIN stepResults
                         /\ stepResults[plan.dataFlow[c].value.from].success }
            copied == { <<c, m>> \in edges \X {1} :
                          GetProp(stepResults[plan.dataFlow[c].value.from].result,
                                  plan.dataFlow[c].value.mappings[m].fromParam) # JUndefined }
            target(cm) == plan.dataFlow[cm[1]].value.mappings[cm[2]].toParam
            source(cm) == GetProp(stepResults[plan.dataFlow[cm[1]].value.from].result,
                                  plan.dataFlow[cm[1]].value.mappings[cm[2]].fromParam)
        IN  /\ Len(calls') = Len(calls) + 1
            /\ calls'[Len(calls')].stepId = step.stepId
            /\ DOMAIN calls'[Len(calls')].params
                  = DOMAIN declared \cup {target(cm) : cm \in copied}
            /\ \A cm \in copied : calls'[Len(calls')].params[target(cm)] = source(cm)
            /\ \A k \in DOMAIN declared \ {target(cm) : cm \in copied} :
                  calls'[Len(calls')].params[k] = declared[k]
    ]_vars

\* the step of executeRequest in which executeTool is called for the current
\* step of the plan
C20_CallStep == pc = "running" /\ Len(calls') = Len(calls) + 1

\* the current step has been recorded as failed with this message
C20_FailedWith(message) ==
  /\ pc' = "returned"
  /\ plan.steps[stepIndex].stepId \in DOMAIN stepResults'
  /\ ~stepResults'[plan.steps[stepIndex].stepId].success
  /\ stepResults'[plan.steps[stepIndex].stepId].error = JString(message)

\* the current step has been settled by executeDeclarativeTool
C20_DeclarativeRan(tool) ==
  /\ pc' # "invoking"
  /\ plan.steps[stepIndex].stepId \in DOMAIN stepResults'
  /\ LET r == stepResults'[plan.steps[stepIndex].stepId]
     IN  IF r.success
           THEN /\ tool.executionConfig.type \in {"http", "command-line"}
                /\ GetProp(r.result, "message") \in
                      { JString("HTTP tool executed successfully"),
                        JString("Command-line tool executed successfully") }
           ELSE r.error = JString("Unknown execution type: " \o tool.executionConfig.type)

\* executeTool waits for the tool's execute(params) or for the MCP server,
\* and nothing has been recorded for the step
C20_Waits ==
  /\ pc' = "invoking"
  /\ stepResults' = stepResults

\* what both readings of C20 say about the end of an awaited call: a tool
\* with an execute function is settled by that function, any other by the
\* MCP server's answer
C20_AwaitedCallEnds ==
  (pc = "invoking" /\ pc' # "invoking") =>
     LET tool == tools[calls[Len(calls)].ref]
         sid  == plan.steps[stepIndex].stepId
     IN  IF Has(tool, "execute") /\ tool.execute = "function"
           THEN (sid \in DOMAIN stepResults' /\ stepResults'[sid].success) =>
                   /\ stepResults'[sid].result # McpResult(tool)
                   /\ GetProp(stepResults'[sid].result, "message")
                         # JString("HTTP tool executed successfully")
           ELSE stepResults' = ObjectAssign(stepResults,
                  [k \in {sid} |-> [success |-> TRUE, result |-> McpResult(tool)]])

\* C20 as stated: executeTool uses one mechanism, the first of: the tool's
\* execute function; its executionConfig; remote invocation if the tool
\* declares an apiEndpoint; with none of the three the step fails with the
\* no-mechanism error.
C20_AsStated ==
  [][ /\ C20_CallStep =>
           LET tool == tools[calls'[Len(calls')].ref]
           IN  IF Has(tool, "execute") /\ tool.execute = "function" THEN C20_Waits
               ELSE IF Has(tool, "executionConfig") THEN C20_DeclarativeRan(tool)
               ELSE IF Has(tool, "apiEndpoint") /\ tool.apiEndpoint # "" THEN C20_Waits
               ELSE C20_FailedWith("Tool " \o IdText(tool)
                                   \o " doesn't have a valid execution mechanism")
      /\ C20_AwaitedCallEnds
    ]_vars

\* C20: executeTool uses one mechanism, the first of: the tool's execute
\* function; its executionConfig; for a tool of type mcp-server the remote
\* invocation, which fails with the missing-endpoint error when the tool has
\* no apiEndpoint; any other tool, with or without apiEndpoint, makes the
\* step fail with the no-mechanism error.
C20_StrategyPriority ==
  [][ /\ C20_CallStep =>
           LET tool == tools[calls'[Len(calls')].ref]
           IN  IF Has(tool, "execute") /\ tool.execute = "function" THEN C20_Waits
               ELSE IF Has(tool, "executionConfig") THEN C20_DeclarativeRan(tool)
               ELSE IF Has(tool, "type") /\ tool.type = "mcp-server"
                 THEN IF Has(tool, "apiEndpoint") /\ tool.apiEndpoint # ""
                        THEN C20_Waits
                        ELSE C20_FailedWith("MCP server " \o IdText(tool)
                                            \o " doesn't have an API endpoint")
               ELSE C20_FailedWith("Tool " \o IdText(tool)
                                   \o " doesn't have a valid execution mechanism")
      /\ C20_AwaitedCallEnds
    ]_vars

\* a tool with execute, executionConfig, type mcp-server and apiEndpoint has
\* been called and its step holds what execute returned
C20_Witness ==
  /\ Len(calls) > 0
  /\ LET tool == tools[calls[Len(calls)].ref]
         sid  == calls[Len(calls)].stepId
     IN  /\ Has(tool, "execute") /\ Has(tool, "executionConfig")
         /\ Has(tool, "type") /\ Has(tool, "apiEndpoint")
         /\ sid \in DOMAIN stepResults
         /\ stepResults[sid].success
         /\ stepResults[sid].result = JObject([status |-> JString("done")])

\* the calls of executeTool of the current run whose step has no StepResult:
\* calls that are awaited, and the call whose failure escaped the loop
InFlight ==
  { i \in 1..Len(calls) : calls[i].stepId \notin DOMAIN stepResults }

\* C21: within one executeRequest run the steps are processed in chain
\* order.  The i-th executeTool call of the run is for the i-th step of the
\* plan, so no step is invoked twice and none out of order; every call but
\* the latest has a successful StepResult, so step k+1 is invoked only after
\* step k succeeded; at most one call is without StepResult, the latest, and
\* only while it is awaited (or when its failure ended the run without a
\* StepResult), so no two steps are in flight together.
C21_SequentialSteps ==
  (pc \in {"running", "invoking", "returned", "threw"} /\ Has(plan, "steps")) =>
     /\ Len(calls) <= Len(plan.steps)
     /\ \A i \in 1..Len(calls) : calls[i].stepId = plan.steps[i].stepId
     /\ \A i \in 1..(Len(calls) - 1) :
           /\ calls[i].stepId \in DOMAIN stepResults
           /\ stepResults[calls[i].stepId].success
     /\ Cardinality(InFlight) <= 1
     /\ InFlight # {} => (pc \in {"invoking", "threw"} /\ InFlight = {Len(calls)})
     /\ pc = "invoking" => InFlight = {Len(calls)}

\* the second step's tool call is awaited, after the first step succeeded
C21_Witness ==
  /\ pc = "invoking"
  /\ Len(calls) = 2
  /\ stepResults[plan.steps[1].stepId].success
  /\ InFlight = {2}

\* C22: for an executable plan, whatever the invoked tools return or throw,
\* executeRequest returns an object with planId, success, stepResults and
\* error; a failure raised inside a step is recorded as that step's failed
\* StepResult and executeRequest itself does not throw.
C22_AlwaysStructuredResult ==
  (pc \in {"returned", "threw"} /\ Has(plan, "steps") /\ plan.canExecute) =>
     /\ pc = "returned"
     /\ DOMAIN outcome = {"planId", "success", "stepResults", "error"}
     /\ outcome.success \in BOOLEAN
     /\ \A i \in 1..Len(calls) : calls[i].stepId \in DOMAIN outcome.stepResults

\* the matched tool at position k declares the intent
C23_Declares(k, intent) ==
  /\ CapHas(tools[analysis.matchedTools[k].ref], "intents")
  /\ SeqIncludes(tools[analysis.matchedTools[k].ref].capabilities.intents, intent)

\* positions in matchedTools of the tools declaring the intent
C23_Candidates(intent) ==
  { k \in 1..Len(analysis.matchedTools) : C23_Declares(k, intent) }

\* the candidate of highest score, the first in matchedTools among equals
C23_Best(intent) ==
  CHOOSE k \in C23_Candidates(intent) :
    \A j \in C23_Candidates(intent) :
       \/ analysis.matchedTools[k].score > analysis.matchedTools[j].score
       \/ /\ analysis.matchedTools[k].score = analysis.matchedTools[j].score
          /\ k <= j

\* the step names the tool: toolId and toolName are the tool's id and name
C23_StepUses(step, tool) ==
  /\ IF Has(tool, "id") THEN Has(step, "toolId") /\ step.toolId = tool.id
                        ELSE ~Has(step, "toolId")
  /\ IF Has(tool, "name") THEN Has(step, "toolName") /\ step.toolName = tool.name
                          ELSE ~Has(step, "toolName")

\* C23: matchedTools is in descending order of score, tools of equal score
\* in registry order; the plan has one step per non-UNKNOWN intent that some
\* matched tool declares, in classification order, and the step's tool is
\* the matched tool of highest score among those declaring the intent, the
\* first of them in matchedTools when scores are equal.
C23_BestToolPerIntent ==
  (pc = "planned" /\ Has(plan, "steps")) =>
     LET mt == analysis.matchedTools
         served == FilterIdx(analysis.intents,
                     [i \in 1..Len(analysis.intents) |->
                        /\ analysis.intents[i] # UNKNOWN
                        /\ C23_Candidates(analysis.intents[i]) # {}], 1)
     IN  /\ \A i \in 1..Len(mt) : \A j \in (i + 1)..Len(mt) :
               \/ mt[i].score > mt[j].score
               \/ mt[i].score = mt[j].score /\ mt[i].ref < mt[j].ref
         /\ Len(plan.steps) = Len(served)
         /\ \A n \in 1..Len(plan.steps) :
               /\ plan.steps[n].intent = served[n]
               /\ C23_StepUses(plan.steps[n], tools[mt[C23_Best(served[n])].ref])

\* a plan whose step uses the tool of higher score, registered after a
\* candidate of lower score
C23_Witness ==
  /\ pc = "planned" /\ Has(plan, "steps")
  /\ \E n \in 1..Len(plan.steps) :
        \E k, j \in C23_Candidates(plan.steps[n].intent) :
           /\ analysis.matchedTools[k].score > analysis.matchedTools[j].score
           /\ analysis.matchedTools[k].ref > analysis.matchedTools[j].ref
           /\ C23_StepUses(plan.steps[n], tools[analysis.matchedTools[k].ref])
           /\ ~C23_StepUses(plan.steps[n], tools[analysis.matchedTools[j].ref])

\* the intents of the steps of the plan, in step order
C24_StepIntents == [n \in 1..Len(plan.steps) |-> plan.steps[n].intent]

\* plan.unaddressedIntents, which is undefined when every intent has a step
C24_Unaddressed ==
  IF Has(plan, "unaddressedIntents") THEN plan.unaddressedIntents ELSE <<>>

\* the plan createExecutionPlan builds from the same analysis when the query
\* has the addressed intents only
C24_PlanOfAddressed ==
  createExecutionPlan([analysis EXCEPT !.intents = C24_StepIntents], tools, 0, 0)

\* C24: in every plan built with matched tools, each non-UNKNOWN intent of
\* the query has exactly one step, the steps being in classification order,
\* or is listed in unaddressedIntents, never both and never neither;
\* suggestedTools has exactly one suggestion per unaddressed intent; and the
\* steps, the data-flow edges and canExecute are those of the plan built for
\* the addressed intents alone.
C24_IntentsPartitioned ==
  (pc = "planned" /\ Len(analysis.matchedTools) > 0) =>
     LET intents == analysis.intents
         known == FilterIdx(intents, [i \in 1..Len(intents) |-> intents[i] # UNKNOWN], 1)
         inStep == {C24_StepIntents[n] : n \in 1..Len(plan.steps)}
         listed == {C24_Unaddressed[n] : n \in 1..Len(C24_Unaddressed)}
     IN  /\ Has(plan, "steps")
         /\ Cardinality(inStep) = Len(plan.steps)
         /\ Cardinality(listed) = Len(C24_Unaddressed)
         /\ inStep \cup listed = {known[i] : i \in 1..Len(known)}
         /\ inStep \cap listed = {}
         /\ C24_StepIntents = FilterIdx(known, [i \in 1..Len(known) |-> known[i] \in inStep], 1)
         /\ IF listed = {}
              THEN ~Has(plan, "suggestedTools")
              ELSE /\ Len(plan.suggestedTools) = Len(C24_Unaddressed)
                   /\ \A n \in 1..Len(C24_Unaddressed) :
                         plan.suggestedTools[n].intent = C24_Unaddressed[n]
         /\ plan.canExecute = (Len(plan.steps) > 0)
         /\ Len(plan.steps) > 0 =>
               /\ plan.steps = C24_PlanOfAddressed.steps
               /\ plan.dataFlow = C24_PlanOfAddressed.dataFlow
               /\ plan.canExecute = C24_PlanOfAddressed.canExecute

\* an executable plan with two steps and one edge, for a query whose second
\* intent of three has no tool and is listed with one suggestion
C24_Witness ==
  /\ pc = "planned"
  /\ Len(analysis.matchedTools) > 0
  /\ analysis.intents = <<"FILE_OPERATION", "DATA_PROCESSING", "VISUALIZATION">>
  /\ plan.canExecute
  /\ C24_StepIntents = <<"FILE_OPERATION", "VISUALIZATION">>
  /\ C24_Unaddressed = <<"DATA_PROCESSING">>
  /\ Len(plan.suggestedTools) = 1
  /\ Len(plan.dataFlow) = 1

\* C25: whatever registrations are interleaved with a request between its
\* analysis, its planning and the steps of its execution, the toolId of the
\* step the loop of executeRequest has reached resolves to a registry entry,
\* and no step is recorded as failed with the tool-not-found error.
C25_PlannedToolsResolve ==
  /\ pc = "running" => getToolInstance(tools, plan.steps[stepIndex]) # 0
  /\ \A sid \in DOMAIN stepResults :
        ~stepResults[sid].success =>
           \A n \in 1..Len(plan.steps) :
              stepResults[sid].error
                # JString("Tool " \o StepToolText(plan.steps[n]) \o " not found")

\* the query yielded no file, data type, code language or visualization type
NoEntities(entities) ==
  /\ Len(entities.files) = 0
  /\ Len(entities.dataTypes) = 0
  /\ Len(entities.codeLanguages) = 0
  /\ Len(entities.visualizationTypes) = 0

\* C26: for a query without entities of any of the four categories,
\* whatever the registry holds, matchedTools is empty, the plan has
\* canExecute = false and reason 'No suitable tools found', and the request
\* makes no executeTool call.
C26_NoEntitiesNoTools ==
  (analysis # None /\ NoEntities(analysis.entities)) =>
     /\ Len(analysis.matchedTools) = 0
     /\ plan # None =>
           /\ plan.canExecute = FALSE
           /\ plan.reason = "No suitable tools found"
           /\ ~Has(plan, "steps")
     /\ calls = <<>>
     /\ pc # "invoking"

\* the request for "search the web" is over, with a tool registered that
\* declares WEB_SEARCH
C26_Witness ==
  /\ pc \in {"returned", "threw"}
  /\ query = "search the web"
  /\ NoEntities(analysis.entities)
  /\ SeqIncludes(analysis.intents, "WEB_SEARCH")
  /\ \E i \in 1..Len(tools) :
        /\ CapHas(tools[i], "intents")
        /\ SeqIncludes(tools[i].capabilities.intents, "WEB_SEARCH")
====
